---- MODULE Spec2Model ----
(***************************************************************************)
(* Model of convert_us_to_jis.py: the conversion table, the alias map, the *)
(* header generator, the regex-driven line rewriter and the file converter.*)
(*                                                                         *)
(* Text is a sequence of lexical chunks (strings).  A chunk is one of      *)
(*   - "&" followed by an identifier ("&kp"): marker plus binding keyword, *)
(*   - an identifier run ("SQT", "LSHFT", "JP_QUOTE", "1"),                *)
(*   - a modifier-wrapper expression without inner blanks ("LS(SQT)"),     *)
(*   - one whitespace character (" ", "\t", "\n"),                         *)
(*   - one terminator character (",", ";", ">"),                           *)
(*   - any other run without blanks, terminators or "&" ("//", "#define"). *)
(* Python strings are the concatenations of such sequences; two identifier *)
(* runs are never adjacent (they would be one run), see WellLexed.         *)
(***************************************************************************)
EXTENDS Integers, Sequences, FiniteSets, TLC

VARIABLES
    pc,               \* position in the program
    conversion_map,   \* convert_file: conversion_map (US alias -> JP name)
    line,             \* convert_keymap_line: argument `line`
    converted_line,   \* convert_keymap_line: return value
    matches,          \* the matches re.sub handed to repl, left to right
    input_file,       \* content of <input_path>, or Absent
    backup_file,      \* content of <input_path>_original, or Absent
    start_content,    \* content of <input_path> when the current run started
    lines,            \* convert_file: lines (result of readlines)
    converted_lines,  \* convert_file: converted_lines
    conversion_count, \* convert_file: conversion_count
    exit_code,        \* process exit status of the current run, or Running
    prev_exit_code,   \* exit status of the run before the current one
    run               \* number of the current run of convert_file

vars == <<pc, conversion_map, line, converted_line, matches, input_file,
          backup_file, start_content, lines, converted_lines, conversion_count,
          exit_code, prev_exit_code, run>>

-----------------------------------------------------------------------------
(* Static data *)

Entry(jp, us, val, sym) ==
    [jp_name |-> jp, us_names |-> us, us_value |-> val, comment |-> sym]

\* The display symbols of JP_YEN and JP_BACKQUOTE are written as the words
\* "yen" and "backtick": they are comment text after "// " in either form.
CONVERSION_TABLE ==
    << Entry("JP_DQUOTE", <<"DOUBLE_QUOTES", "DOUBLE_QUOTE", "DQT">>, "AT", "\""),
       Entry("JP_AMPERSAND", <<"AMPERSAND", "AMPS", "AMP">>, "CARET", "&"),
       Entry("JP_QUOTE", <<"SINGLE_QUOTE", "SQT", "APOS">>, "AMPERSAND", "'"),
       Entry("JP_EQUAL", <<"EQUAL", "EQL">>, "UNDERSCORE", "="),
       Entry("JP_CARET", <<"CARET">>, "EQUAL", "^"),
       Entry("JP_YEN", <<"YEN", "BACKSLASH">>, "0x89", "yen"),
       Entry("JP_PLUS", <<"PLUS">>, "COLON", "+"),
       Entry("JP_TILDE", <<"TILDE">>, "PLUS", "~"),
       Entry("JP_PIPE", <<"PIPE">>, "LS(0x89)", "|"),
       Entry("JP_AT", <<"AT">>, "LEFT_BRACKET", "@"),
       Entry("JP_COLON", <<"COLON">>, "SINGLE_QUOTE", ":"),
       Entry("JP_ASTERISK", <<"ASTERISK", "ASTRK", "STAR">>, "DOUBLE_QUOTES", "*"),
       Entry("JP_BACKQUOTE", <<"BACKQUOTE", "GRAVE">>, "LEFT_BRACE", "backtick"),
       Entry("JP_UNDERSCORE", <<"UNDERSCORE", "UNDER">>, "LS(0x87)", "_"),
       Entry("JP_LBRACKET", <<"LEFT_BRACKET", "LBKT", "LBRC">>, "RIGHT_BRACKET", "["),
       Entry("JP_RBRACKET", <<"RIGHT_BRACKET", "RBKT", "RBRC">>, "BACKSLASH", "]"),
       Entry("JP_LPAREN", <<"LEFT_PARENTHESIS", "LPAR">>, "ASTERISK", "("),
       Entry("JP_RPAREN", <<"RIGHT_PARENTHESIS", "RPAR">>, "LEFT_PARENTHESIS", ")"),
       Entry("JP_LBRACE", <<"LEFT_BRACE", "LBRC">>, "RIGHT_BRACE", "{"),
       Entry("JP_RBRACE", <<"RIGHT_BRACE", "RBRC">>, "PIPE", "}"),
       Entry("JP_KANA", <<"KANA">>, "LANGUAGE_1", "kana"),
       Entry("JP_EISU", <<"EISU">>, "LANGUAGE_2", "eisu"),
       Entry("JP_HANZEN", <<"HANZEN", "HANKAKU_ZENKAKU">>, "GRAVE", "hankaku/zenkaku") >>

BINDING_KEY_ARG_RULES ==
    [b \in {"kp", "mt", "lt", "lt_to_layer_0"} |-> IF b = "kp" THEN 0 ELSE -1]

\* Regex character classes of `pattern`, and str.split()'s separators.
Whitespace == {" ", "\t", "\n"}
Terminators == {",", ";", ">", "\n"}

\* The identifiers that follow the marker "&" in the texts considered.
Identifiers == {"kp", "mt", "lt", "lt_to_layer_0", "foo"}

Marker(binding) == "&" \o binding
IsBindingStart(c) == \E b \in Identifiers : c = Marker(b)
KeywordOf(c) == CHOOSE b \in Identifiers : c = Marker(b)

Max(a, b) == IF a >= b THEN a ELSE b
Spaces(n) == [i \in 1..n |-> " "]

-----------------------------------------------------------------------------
(* generate_define_header *)

NameColumn == 20
ValueColumn == 20

BannerLines ==
    << <<"//", " ", "========================================">>,
       <<"//", " ", "JIS", " ", "Keyboard", " ", "Layout", " ", "Definitions">>,
       <<"//", " ", "========================================">> >>

DefineLine(e) ==
    <<"#define", " ", e.jp_name>>
        \o Spaces(Max(1, NameColumn - Len(e.jp_name)))
        \o <<e.us_value>> \o Spaces(Max(0, ValueColumn - Len(e.us_value)))
        \o <<"//", " ", e.comment>>

\* "\n".join(parts)
RECURSIVE JoinWith(_, _)
JoinWith(parts, sep) ==
    IF Len(parts) = 0 THEN <<>>
    ELSE IF Len(parts) = 1 THEN parts[1]
    ELSE parts[1] \o <<sep>> \o JoinWith(Tail(parts), sep)

\* Variant of HeaderLines: without the final blank line.
HeaderLines_NoBlankLine ==
    BannerLines
        \o [k \in 1..Len(CONVERSION_TABLE) |-> DefineLine(CONVERSION_TABLE[k])]

HeaderLines ==
    BannerLines
        \o [k \in 1..Len(CONVERSION_TABLE) |-> DefineLine(CONVERSION_TABLE[k])]
        \o << <<>> >>

generate_define_header == JoinWith(HeaderLines, "\n")

-----------------------------------------------------------------------------
(* create_conversion_map *)

EmptyMap == [a \in {} |-> ""]

\* The assignments conversion_map[us_name] = jp_name in execution order.
RECURSIVE Assignments(_)
Assignments(k) ==
    IF k = 0 THEN <<>>
    ELSE LET e == CONVERSION_TABLE[k]
         IN  Assignments(k - 1)
                \o [j \in 1..Len(e.us_names) |-> <<e.us_names[j], e.jp_name>>]

\* Variant of Assign: an existing key keeps its value (dict.setdefault).
Assign_KeepFirst(map, key, value) == map @@ (key :> value)

\* dict assignment: a later assignment to the same key overwrites.
Assign(map, key, value) == (key :> value) @@ map

RECURSIVE ApplyAssignments(_, _)
ApplyAssignments(as, n) ==
    IF n = 0 THEN EmptyMap
    ELSE Assign(ApplyAssignments(as, n - 1), as[n][1], as[n][2])

create_conversion_map ==
    LET as == Assignments(Len(CONVERSION_TABLE))
    IN  ApplyAssignments(as, Len(as))

-----------------------------------------------------------------------------
(* The regular expression of convert_keymap_line and str.split *)

SetMax(S) == CHOOSE x \in S : \A y \in S : y <= x

\* Last index of the maximal run of chunks in C that starts at i (i - 1: none).
RECURSIVE RunEndIn(_, _, _)
RunEndIn(s, i, C) ==
    IF i > Len(s) \/ s[i] \notin C THEN i - 1 ELSE RunEndIn(s, i + 1, C)

\* Last index of the maximal run of chunks outside C that starts at i.
RECURSIVE RunEndNotIn(_, _, _)
RunEndNotIn(s, i, C) ==
    IF i > Len(s) \/ s[i] \in C THEN i - 1 ELSE RunEndNotIn(s, i + 1, C)

NoMatch == [start |-> 0, end |-> 0, binding |-> "", group0 |-> <<>>, group2 |-> <<>>]

\* pattern.match at index i:  &([a-zA-Z_][a-zA-Z0-9_]*)\s+([^,;>\n]+)
\* \s+ is greedy and gives characters back until group 2 can take one.
MatchAt(s, i) ==
    IF ~(IsBindingStart(s[i]) /\ i < Len(s) /\ s[i + 1] \in Whitespace)
    THEN NoMatch
    ELSE LET wsEnd == RunEndIn(s, i + 1, Whitespace)
             J == {j \in (i + 1)..wsEnd : j < Len(s) /\ s[j + 1] \notin Terminators}
         IN  IF J = {} THEN NoMatch
             ELSE LET j == SetMax(J)
                      e == RunEndNotIn(s, j + 1, Terminators)
                  IN  [start |-> i, end |-> e, binding |-> KeywordOf(s[i]),
                       group0 |-> SubSeq(s, i, e), group2 |-> SubSeq(s, j + 1, e)]

\* The non-overlapping matches of pattern in s from index i on, left to right.
RECURSIVE FindAll(_, _)
FindAll(s, i) ==
    IF i > Len(s) THEN <<>>
    ELSE LET m == MatchAt(s, i)
         IN  IF m.start = 0 THEN FindAll(s, i + 1)
             ELSE <<m>> \o FindAll(s, m.end + 1)

\* str.split(): the maximal runs of non-whitespace, in order.
RECURSIVE split(_)
split(s) ==
    IF Len(s) = 0 THEN <<>>
    ELSE IF s[1] \in Whitespace THEN split(Tail(s))
    ELSE LET e == RunEndNotIn(s, 1, Whitespace)
         IN  <<SubSeq(s, 1, e)>> \o split(SubSeq(s, e + 1, Len(s)))

\* The Python string a token (a sequence of chunks) is.
RECURSIVE Concat(_)
Concat(tok) == IF Len(tok) = 0 THEN "" ELSE Head(tok) \o Concat(Tail(tok))

-----------------------------------------------------------------------------
(* convert_keymap_line *)

\* Modifier wrappers: Wrap(<<"LC", "LA">>, "SQT") is the chunk "LC(LA(SQT))".
RECURSIVE Wrap(_, _)
Wrap(mods, code) ==
    IF Len(mods) = 0 THEN code ELSE Head(mods) \o "(" \o Wrap(Tail(mods), code) \o ")"
WrapperForms == {<<"LS">>, <<"LC", "LA">>}

\* Variant of ReplaceKey: the lookup also reaches the code inside a wrapper.
ReplaceKey_InsideWrappers(token, cmap) ==
    LET key_name == Concat(token)
        inner == {x \in WrapperForms \X DOMAIN cmap : key_name = Wrap(x[1], x[2])}
    IN  IF key_name \in DOMAIN cmap THEN <<cmap[key_name]>>
        ELSE IF inner # {}
             THEN LET x == CHOOSE y \in inner : TRUE IN <<Wrap(x[1], cmap[x[2]])>>
             ELSE token

\* key_name = args[idx]; if key_name in conversion_map: args[idx] = ...
ReplaceKey(token, cmap) ==
    LET key_name == Concat(token)
    IN  IF key_name \in DOMAIN cmap THEN <<cmap[key_name]>> ELSE token

\* Variant of RewriteMatch: returns the match untouched when the key is not
\* in the map.
RewriteMatch_KeepUnmapped(m, key_arg_index, cmap) ==
    LET args == split(m.group2)
    IN  IF Len(args) = 0 THEN m.group0
        ELSE LET idx == IF key_arg_index >= 0 THEN key_arg_index
                        ELSE Len(args) + key_arg_index
             IN  IF idx < 0 \/ idx >= Len(args) THEN m.group0
                 ELSE IF Concat(args[idx + 1]) \notin DOMAIN cmap THEN m.group0
                 ELSE LET new == [args EXCEPT ![idx + 1] = ReplaceKey(@, cmap)]
                      IN  <<Marker(m.binding), " ">> \o JoinWith(new, " ")

\* Variant of RewriteMatch: replaces every argument that is a map key.
RewriteMatch_EveryArgument(m, key_arg_index, cmap) ==
    LET args == split(m.group2)
    IN  IF Len(args) = 0 THEN m.group0
        ELSE LET new == [k \in 1..Len(args) |-> ReplaceKey(args[k], cmap)]
             IN  <<Marker(m.binding), " ">> \o JoinWith(new, " ")

\* The body of repl once the binding is known to have the rule key_arg_index.
RewriteMatch(m, key_arg_index, cmap) ==
    LET args == split(m.group2)
    IN  IF Len(args) = 0 THEN m.group0
        ELSE LET idx == IF key_arg_index >= 0 THEN key_arg_index
                        ELSE Len(args) + key_arg_index
             IN  IF idx < 0 \/ idx >= Len(args) THEN m.group0
                 ELSE LET new == [args EXCEPT ![idx + 1] = ReplaceKey(@, cmap)]
                      IN  <<Marker(m.binding), " ">> \o JoinWith(new, " ")

\* Variant of repl: a keyword without a rule is treated like kp.
repl_AnyBinding(m, cmap) ==
    RewriteMatch(m, IF m.binding \in DOMAIN BINDING_KEY_ARG_RULES
                    THEN BINDING_KEY_ARG_RULES[m.binding] ELSE 0, cmap)

repl(m, cmap) ==
    IF m.binding \notin DOMAIN BINDING_KEY_ARG_RULES THEN m.group0
    ELSE RewriteMatch(m, BINDING_KEY_ARG_RULES[m.binding], cmap)

\* re.sub(pattern, repl, s) from index i on.
RECURSIVE re_sub(_, _, _)
re_sub(s, i, cmap) ==
    IF i > Len(s) THEN <<>>
    ELSE LET m == MatchAt(s, i)
         IN  IF m.start = 0 THEN <<s[i]>> \o re_sub(s, i + 1, cmap)
             ELSE repl(m, cmap) \o re_sub(s, m.end + 1, cmap)

convert_keymap_line(l, cmap) == re_sub(l, 1, cmap)

\* The matches of pattern in l, each with the text repl returns for it.
MatchesOf(l, cmap) ==
    LET ms == FindAll(l, 1)
    IN  [k \in 1..Len(ms) |->
            [start |-> ms[k].start, end |-> ms[k].end, binding |-> ms[k].binding,
             group0 |-> ms[k].group0, group2 |-> ms[k].group2,
             replacement |-> repl(ms[k], cmap)]]

-----------------------------------------------------------------------------
(* Input lines *)

MaxRichLen == 3
MaxMediumLen == 5
MaxCoreLen == 7

RichAlphabet ==
    {"&kp", "&mt", "&lt", "&lt_to_layer_0", "&foo", "&",
     " ", "\t", "\n", ",", ";", ">",
     "SQT", "AMPERSAND", "LBRC", "LSHFT", "1", "JP_QUOTE",
     "LS(SQT)", "LC(LA(SQT))"}
MediumAlphabet ==
    {"&kp", "&lt", "&foo", " ", ",", "SQT", "LSHFT", "LS(SQT)"}
CoreAlphabet == {"&kp", "&mt", " ", ",", "SQT"}

\* Chunks that end in an identifier character, and chunks that start with one.
EndsInIdentifier(c) ==
    IsBindingStart(c) \/ c \in {"SQT", "AMPERSAND", "LBRC", "LSHFT", "1", "JP_QUOTE"}
StartsWithIdentifier(c) ==
    c \in {"SQT", "AMPERSAND", "LBRC", "LSHFT", "1", "JP_QUOTE", "LS(SQT)", "LC(LA(SQT))"}

\* Chunk c may follow chunk b: two identifier runs would be one chunk, and a
\* bare "&" is by definition not followed by an identifier.
MayFollow(b, c) ==
    ~(StartsWithIdentifier(c) /\ (EndsInIdentifier(b) \/ b = "&"))

WellLexed(l) == \A i \in 1..(Len(l) - 1) : MayFollow(l[i], l[i + 1])

\* l is a line of at most n chunks of A.
IsLineOver(l, A, n) == \E k \in 0..n : l \in [1..k -> A]

-----------------------------------------------------------------------------
(* Applying convert_keymap_line to one line *)

\* A path of the file system: no file, or a file with its content.
Absent == [exists |-> FALSE, content |-> <<>>]
File(text) == [exists |-> TRUE, content |-> text]
\* exit_code holds the exit status once the process has ended.
Running == {}

Init ==
    /\ pc = "create_map"
    /\ \/ IsLineOver(line, RichAlphabet, MaxRichLen)
       \/ IsLineOver(line, MediumAlphabet, MaxMediumLen)
       \/ IsLineOver(line, CoreAlphabet, MaxCoreLen)
    /\ WellLexed(line)
    /\ conversion_map = EmptyMap
    /\ converted_line = <<>>
    /\ matches = <<>>
    /\ input_file = Absent
    /\ backup_file = Absent
    /\ start_content = Absent
    /\ lines = <<>>
    /\ converted_lines = <<>>
    /\ conversion_count = 0
    /\ exit_code = Running
    /\ prev_exit_code = Running
    /\ run = 0

CreateConversionMap ==
    /\ pc = "create_map"
    /\ conversion_map' = create_conversion_map
    /\ pc' = "convert"
    /\ UNCHANGED <<line, converted_line, matches, input_file, backup_file,
                   start_content, lines, converted_lines, conversion_count,
                   exit_code, prev_exit_code, run>>

ConvertLine ==
    /\ pc = "convert"
    /\ converted_line' = convert_keymap_line(line, conversion_map)
    /\ matches' = MatchesOf(line, conversion_map)
    /\ pc' = "converted"
    /\ UNCHANGED <<conversion_map, line, input_file, backup_file,
                   start_content, lines, converted_lines, conversion_count,
                   exit_code, prev_exit_code, run>>

Next == CreateConversionMap \/ ConvertLine

Spec == Init /\ [][Next]_vars

-----------------------------------------------------------------------------
(* convert_file, run on one path, possibly again on its own output *)

MaxFileLen == 4
MaxRuns == 2

FileAlphabet == {"&kp", "&mt", " ", "\n", "SQT"}

\* What <input_path>_original may hold before the first run.
StaleBackup == File(<<"stale", "\n">>)

\* f.readlines() on the text s from index i on: each line keeps its "\n".
RECURSIVE readlines(_, _)
readlines(s, i) ==
    IF i > Len(s) THEN <<>>
    ELSE LET e == RunEndNotIn(s, i, {"\n"})
             last == IF e < Len(s) THEN e + 1 ELSE e
         IN  <<SubSeq(s, i, last)>> \o readlines(s, last + 1)

\* "".join(parts)
RECURSIVE JoinLines(_)
JoinLines(parts) ==
    IF Len(parts) = 0 THEN <<>> ELSE parts[1] \o JoinLines(Tail(parts))

\* The loop over lines: converted_lines and conversion_count.
ConvertAll(ls, cmap) == [k \in 1..Len(ls) |-> convert_keymap_line(ls[k], cmap)]
\* Variant of CountConverted: counts every line.
CountConverted_EveryLine(ls, cls) == Len(ls)

CountConverted(ls, cls) == Cardinality({k \in 1..Len(ls) : ls[k] # cls[k]})

\* output_content = header + "\n" + "".join(converted_lines)
output_content(header, cls) == header \o <<"\n">> \o JoinLines(cls)

InitFile ==
    /\ pc = "exists"
    /\ \E text \in UNION {[1..k -> FileAlphabet] : k \in 0..MaxFileLen} :
           /\ WellLexed(text)
           /\ input_file \in {Absent, File(text)}
    /\ backup_file \in {Absent, StaleBackup}
    /\ start_content = input_file
    /\ run = 1
    /\ conversion_map = EmptyMap
    /\ line = <<>>
    /\ converted_line = <<>>
    /\ matches = <<>>
    /\ lines = <<>>
    /\ converted_lines = <<>>
    /\ conversion_count = 0
    /\ exit_code = Running
    /\ prev_exit_code = Running

Exit(code) ==
    /\ pc' = "exit"
    /\ exit_code' = {code}

NotFound ==
    /\ pc = "exists"
    /\ ~input_file.exists
    /\ Exit(1)
    /\ UNCHANGED <<conversion_map, line, converted_line, matches, input_file,
                   backup_file, start_content, lines, converted_lines,
                   conversion_count, prev_exit_code, run>>

Exists ==
    /\ pc = "exists"
    /\ input_file.exists
    /\ pc' = "backup"
    /\ UNCHANGED <<conversion_map, line, converted_line, matches, input_file,
                   backup_file, start_content, lines, converted_lines,
                   conversion_count, exit_code, prev_exit_code, run>>

\* Variant of Backup: goes on without having copied.
Backup_NoCopy ==
    /\ pc = "backup"
    /\ pc' = "read"
    /\ UNCHANGED <<conversion_map, line, converted_line, matches, input_file,
                   backup_file, start_content, lines, converted_lines,
                   conversion_count, exit_code, prev_exit_code, run>>

\* shutil.copy2(input_file, backup_file) succeeds.
Backup ==
    /\ pc = "backup"
    /\ backup_file' = input_file
    /\ pc' = "read"
    /\ UNCHANGED <<conversion_map, line, converted_line, matches, input_file,
                   start_content, lines, converted_lines, conversion_count,
                   exit_code, prev_exit_code, run>>

\* shutil.copy2 raises: the destination is untouched or was opened and cut.
BackupFails ==
    /\ pc = "backup"
    /\ backup_file' \in {backup_file, File(<<>>)}
    /\ Exit(1)
    /\ UNCHANGED <<conversion_map, line, converted_line, matches, input_file,
                   start_content, lines, converted_lines, conversion_count,
                   prev_exit_code, run>>

Read ==
    /\ pc = "read"
    /\ lines' = readlines(input_file.content, 1)
    /\ pc' = "convert"
    /\ UNCHANGED <<conversion_map, line, converted_line, matches, input_file,
                   backup_file, start_content, converted_lines, conversion_count,
                   exit_code, prev_exit_code, run>>

ReadFails ==
    /\ pc = "read"
    /\ Exit(1)
    /\ UNCHANGED <<conversion_map, line, converted_line, matches, input_file,
                   backup_file, start_content, lines, converted_lines,
                   conversion_count, prev_exit_code, run>>

ConvertLines ==
    /\ pc = "convert"
    /\ conversion_map' = create_conversion_map
    /\ converted_lines' = ConvertAll(lines, conversion_map')
    /\ conversion_count' = CountConverted(lines, converted_lines')
    /\ pc' = "write"
    /\ UNCHANGED <<line, converted_line, matches, input_file, backup_file,
                   start_content, lines, exit_code, prev_exit_code, run>>

Write ==
    /\ pc = "write"
    /\ input_file' = File(output_content(generate_define_header, converted_lines))
    /\ Exit(0)
    /\ UNCHANGED <<conversion_map, line, converted_line, matches, backup_file,
                   start_content, lines, converted_lines, conversion_count,
                   prev_exit_code, run>>

\* open(..., "w") raises (file untouched), or truncates and f.write raises.
WriteFails ==
    /\ pc = "write"
    /\ input_file' \in {input_file, File(<<>>)}
    /\ Exit(1)
    /\ UNCHANGED <<conversion_map, line, converted_line, matches, backup_file,
                   start_content, lines, converted_lines, conversion_count,
                   prev_exit_code, run>>

\* The tool is started again on the same path after a completed conversion.
StartRun ==
    /\ pc = "exit"
    /\ exit_code = {0}
    /\ run < MaxRuns
    /\ run' = run + 1
    /\ pc' = "exists"
    /\ start_content' = input_file
    /\ prev_exit_code' = exit_code
    /\ exit_code' = Running
    /\ conversion_map' = EmptyMap
    /\ lines' = <<>>
    /\ converted_lines' = <<>>
    /\ conversion_count' = 0
    /\ UNCHANGED <<line, converted_line, matches, input_file, backup_file>>

NextFile ==
    \/ NotFound
    \/ Exists
    \/ Backup
    \/ BackupFails
    \/ Read
    \/ ReadFails
    \/ ConvertLines
    \/ Write
    \/ WriteFails
    \/ StartRun

SpecFile == InitFile /\ [][NextFile]_vars

-----------------------------------------------------------------------------
(* Vocabulary of the properties *)

\* The keywords the module docstring lists, and those whose key is the first
\* argument (the others: the last argument).
RecognizedKeywords == {"kp", "mt", "lt", "lt_to_layer_0"}
FirstArgKeywords == {"kp"}

\* Designated 0-based argument index of keyword b in a list of n arguments.
ResolvedIndex(b, n) == IF b \in FirstArgKeywords THEN 0 ELSE n - 1

Range(f) == {f[x] : x \in DOMAIN f}
EntriesListing(a) ==
    {k \in 1..Len(CONVERSION_TABLE) : a \in Range(CONVERSION_TABLE[k].us_names)}
AllAliases == UNION {Range(CONVERSION_TABLE[k].us_names) : k \in 1..Len(CONVERSION_TABLE)}
RepeatedAliases == {a \in AllAliases : Cardinality(EntriesListing(a)) > 1}
LastTarget(a) == CONVERSION_TABLE[SetMax(EntriesListing(a))].jp_name

RECURSIVE AliasListLengths(_)
AliasListLengths(k) ==
    IF k = 0 THEN 0 ELSE AliasListLengths(k - 1) + Len(CONVERSION_TABLE[k].us_names)

WrappedAliases == {Wrap(f, a) : f \in WrapperForms, a \in AllAliases}

\* The items of a text: its tokens, separated by whitespace or terminators,
\* each with whether a terminator stands between it and the token before.
RECURSIVE Items(_, _, _)
Items(s, i, terminated) ==
    IF i > Len(s) THEN <<>>
    ELSE IF s[i] \in Terminators THEN Items(s, i + 1, TRUE)
    ELSE IF s[i] \in Whitespace THEN Items(s, i + 1, terminated)
    ELSE LET e == RunEndNotIn(s, i, Whitespace \cup Terminators)
         IN  <<[tok |-> SubSeq(s, i, e), first |-> terminated]>>
                \o Items(s, e + 1, FALSE)

IsInvocation(item) == Len(item.tok) = 1 /\ IsBindingStart(item.tok[1])

\* Index of the last argument of the invocation at item p (p: no argument):
\* the arguments end before the next terminator or the next invocation.
RECURSIVE ArgsEnd(_, _)
ArgsEnd(items, p) ==
    IF p = Len(items) \/ IsInvocation(items[p + 1]) \/ items[p + 1].first
    THEN p ELSE ArgsEnd(items, p + 1)

DesignatedItem(items, p) ==
    IF KeywordOf(items[p].tok[1]) \in FirstArgKeywords THEN p + 1 ELSE ArgsEnd(items, p)

\* Match m has a recognized keyword and at least one argument.
Processed(m) == m.binding \in RecognizedKeywords /\ Len(split(m.group2)) > 0
DesignatedToken(m) ==
    LET args == split(m.group2) IN args[ResolvedIndex(m.binding, Len(args)) + 1]

\* Tokens separated by exactly one space, none before the first or after the last.
SingleSpaced(t) ==
    \A i \in 1..Len(t) :
        t[i] \in Whitespace => /\ t[i] = " "
                               /\ 1 < i /\ i < Len(t)
                               /\ t[i + 1] \notin Whitespace

\* s with the region of each match from the k-th on replaced, from index i on.
RECURSIVE Rebuild(_, _, _, _)
Rebuild(s, ms, k, i) ==
    IF k > Len(ms) THEN SubSeq(s, i, Len(s))
    ELSE SubSeq(s, i, ms[k].start - 1) \o ms[k].replacement
            \o Rebuild(s, ms, k + 1, ms[k].end + 1)

-----------------------------------------------------------------------------
(* Properties of convert_keymap_line and create_conversion_map, under Spec *)

\* C1: on a line where every binding marker starts a token and every binding
\* invocation has an argument, every invocation of a recognized binding,
\* whether the invocations are separated by commas or only by whitespace, has
\* its designated argument (kp: first; mt, lt, lt_to_layer_0: last) replaced
\* by the mapped JP_ name in the output when that argument is a map key.
C1_EveryInvocationConverted ==
    pc = "converted" =>
        LET a == Items(line, 1, FALSE)
            b == Items(converted_line, 1, FALSE)
            wellFormed ==
                \A p \in 1..Len(a) :
                    /\ (\E i \in 1..Len(a[p].tok) : IsBindingStart(a[p].tok[i]))
                            => IsInvocation(a[p])
                    /\ IsInvocation(a[p]) => ArgsEnd(a, p) > p
        IN  wellFormed
            => \A p \in 1..Len(a) :
                ( /\ IsInvocation(a[p])
                  /\ KeywordOf(a[p].tok[1]) \in RecognizedKeywords
                  /\ Concat(a[DesignatedItem(a, p)].tok) \in DOMAIN conversion_map )
                => /\ Len(b) = Len(a)
                   /\ b[DesignatedItem(a, p)].tok
                        = <<conversion_map[Concat(a[DesignatedItem(a, p)].tok)]>>

\* C2: a line all of whose matches have a keyword outside the rules is
\* returned byte-identical, whatever its arguments and whitespace.
C2_UnrecognizedUntouched ==
    (pc = "converted" /\ \A k \in 1..Len(matches) :
                            matches[k].binding \notin RecognizedKeywords)
        => converted_line = line

C2_Witness ==
    /\ pc = "converted"
    /\ Len(matches) > 0
    /\ \A k \in 1..Len(matches) : matches[k].binding \notin RecognizedKeywords
    /\ \E k \in 1..Len(matches) :
        /\ "\t" \in Range(matches[k].group0)
        /\ \E tok \in Range(split(matches[k].group2)) :
                Concat(tok) \in DOMAIN conversion_map

\* C3: a token that holds a modifier wrapper around a source alias is the
\* same token in the output, wherever it stands on the line.
C3_WrappedAliasKept ==
    pc = "converted" =>
        LET a == Items(line, 1, FALSE)
            b == Items(converted_line, 1, FALSE)
        IN  \A p \in 1..Len(a) :
                (\E i \in 1..Len(a[p].tok) : a[p].tok[i] \in WrappedAliases)
                => Len(b) = Len(a) /\ b[p].tok = a[p].tok

C3_Witness ==
    /\ pc = "converted"
    /\ \E k \in 1..Len(matches) :
        /\ Processed(matches[k])
        /\ Len(DesignatedToken(matches[k])) = 1
        /\ DesignatedToken(matches[k])[1] \in WrappedAliases

\* C6: no alias is listed under two target names, and the map has one entry
\* per (entry, alias) pair.
C6_AliasesUnique ==
    pc # "create_map" =>
        /\ \A a \in AllAliases : Cardinality(EntriesListing(a)) = 1
        /\ Cardinality(DOMAIN conversion_map) = AliasListLengths(Len(CONVERSION_TABLE))

\* C8 as stated: a processed match whose designated token is no map key is
\* replaced by its own text.
C8_RegionByteIdentical ==
    pc = "converted" =>
        \A k \in 1..Len(matches) :
            (Processed(matches[k])
                /\ Concat(DesignatedToken(matches[k])) \notin DOMAIN conversion_map)
            => matches[k].replacement = matches[k].group0

\* C8 amended: a processed match whose designated token is no map key keeps
\* every token, and is rewritten with single spaces between the tokens and
\* no trailing whitespace.
C8_RegionReassembled ==
    pc = "converted" =>
        \A k \in 1..Len(matches) :
            (Processed(matches[k])
                /\ Concat(DesignatedToken(matches[k])) \notin DOMAIN conversion_map)
            => /\ split(matches[k].replacement) = split(matches[k].group0)
               /\ SingleSpaced(matches[k].replacement)

C8_Witness ==
    /\ pc = "converted"
    /\ \E k \in 1..Len(matches) :
        /\ Processed(matches[k])
        /\ Concat(DesignatedToken(matches[k])) \notin DOMAIN conversion_map
        /\ matches[k].replacement # matches[k].group0

\* C9: an alias listed by several entries maps to the target of the last
\* entry listing it, and a binding whose designated token is such an alias is
\* rewritten to that target.
C9_LastWriteWins ==
    pc # "create_map" =>
        /\ RepeatedAliases = {"LBRC", "RBRC"}
        /\ \A a \in RepeatedAliases : conversion_map[a] = LastTarget(a)
        /\ pc = "converted" =>
            \A k \in 1..Len(matches) :
                (Processed(matches[k])
                    /\ Concat(DesignatedToken(matches[k])) \in RepeatedAliases)
                => LET n == Len(split(matches[k].group2))
                       q == ResolvedIndex(matches[k].binding, n) + 2
                   IN  split(matches[k].replacement)[q]
                         = <<LastTarget(Concat(DesignatedToken(matches[k])))>>

C9_Witness ==
    /\ pc = "converted"
    /\ \E k \in 1..Len(matches) :
        /\ Processed(matches[k])
        /\ Concat(DesignatedToken(matches[k])) \in RepeatedAliases

\* C10: the tokens of a rewritten region are those of the original region
\* except possibly the one at the resolved designated index, each match ends
\* at a terminator or at the end of the line, and the text outside the
\* matched regions is unchanged.
C10_OnlyDesignatedTokenChanges ==
    pc = "converted" =>
        /\ converted_line = Rebuild(line, matches, 1, 1)
        /\ \A k \in 1..Len(matches) :
            LET m == matches[k]
                t0 == split(m.group0)
                t1 == split(m.replacement)
            IN  /\ Len(t1) = Len(t0)
                /\ \A q \in 1..Len(t0) :
                        t1[q] # t0[q] =>
                            /\ m.binding \in RecognizedKeywords
                            /\ q = ResolvedIndex(m.binding, Len(t0) - 1) + 2
                /\ m.end = Len(line) \/ line[m.end + 1] \in Terminators

C10_Witness ==
    /\ pc = "converted"
    /\ \E k \in 1..Len(matches) :
        /\ Len(split(matches[k].group0)) >= 3
        /\ split(matches[k].replacement) # split(matches[k].group0)
        /\ matches[k].end < Len(line)

-----------------------------------------------------------------------------
(* Properties of convert_file, under SpecFile *)

Succeeded == pc = "exit" /\ exit_code = {0}

\* C4: a run on the output of a completed run changes no line (its count of
\* changed lines is 0) and writes the file it found with one more copy of
\* the header block in front.
C4_SecondRunPrependsHeaderOnly ==
    (Succeeded /\ run >= 2) =>
        LET block == generate_define_header \o <<"\n">>
        IN  /\ prev_exit_code = {0}
            /\ conversion_count = 0
            /\ converted_lines = lines
            /\ SubSeq(start_content.content, 1, Len(block)) = block
            /\ input_file.content = block \o start_content.content

C4_Witness ==
    /\ Succeeded
    /\ run = 2
    /\ "JP_QUOTE" \in Range(lines[Len(lines)])
    /\ Len(input_file.content) > Len(start_content.content)

\* C5: the input file changes only in the write step, when the backup exists
\* and holds the content the input file had at the start of the run; a run
\* that fails at the existence check, the backup or the read ends with exit
\* code 1 and the input file as it was.
C5_BackupBeforeOverwrite ==
    [][ /\ input_file' # input_file
            => /\ pc = "write"
               /\ backup_file.exists
               /\ backup_file = start_content
               /\ input_file = start_content
        /\ (NotFound \/ BackupFails \/ ReadFails)
            => /\ pc' = "exit"
               /\ exit_code' = {1}
               /\ input_file' = start_content ]_vars

C5_Witness ==
    /\ Succeeded
    /\ backup_file = start_content
    /\ input_file # start_content
    /\ Len(start_content.content) > 0

\* C7: the written file starts with 3 banner lines, then one #define line per
\* table entry in table order, then 1 blank line, and the converted input
\* lines follow from line 3 + (number of entries) + 1 + 1 on.
C7_HeaderShape ==
    Succeeded =>
        LET out == readlines(input_file.content, 1)
            n == Len(CONVERSION_TABLE)
        IN  /\ Len(out) = 3 + n + 1 + Len(lines)
            /\ \A k \in 1..3 : out[k][1] = "//" /\ out[k][Len(out[k])] = "\n"
            /\ \A k \in 1..n :
                /\ SubSeq(out[3 + k], 1, 3)
                     = <<"#define", " ", CONVERSION_TABLE[k].jp_name>>
                /\ CONVERSION_TABLE[k].us_value \in Range(out[3 + k])
            /\ out[3 + n + 1] = <<"\n">>
            /\ \A k \in 1..Len(lines) : out[3 + n + 1 + k] = converted_lines[k]

C7_Witness ==
    /\ Succeeded
    /\ run = 1
    /\ Len(lines) >= 2

====
